---- MODULE Spec2Model ----
(***************************************************************************)
(* Constraint assembly of oemof.solph.linear_constraints.                  *)
(*                                                                         *)
(* The state is the shared variable space of the optimization model (the   *)
(* upper bounds and fixed values of the flow variables w[e1, e2, t]) and   *)
(* the block handed to the generator invoked last: the constraint families *)
(* and auxiliary variables that generator attached to it.  One action per  *)
(* generator function; the block (its objs, options) is the action input.  *)
(* Numbers are exact rationals <<n, d>>; floating point rounding is not    *)
(* modelled.                                                               *)
(***************************************************************************)
EXTENDS Integers, Sequences, FiniteSets, TLC

\* Longest horizon explored: model.timesteps = 0 .. T-1 with 1 <= T <= MaxT.
MaxT == 2

(***************************************************************************)
(* Rational arithmetic (the Python float expressions, without rounding).   *)
(***************************************************************************)
RECURSIVE GCD(_, _)
GCD(a, b) == IF b = 0 THEN a ELSE GCD(b, a % b)

Abs(x) == IF x < 0 THEN 0 - x ELSE x

R(n, d) == LET g == GCD(Abs(n), d) IN <<n \div g, d \div g>>

Zero == <<0, 1>>
One == <<1, 1>>
\* float('inf')
Inf == <<1, 0>>

RAdd(x, y) == R(x[1] * y[2] + y[1] * x[2], x[2] * y[2])
RNeg(x) == <<0 - x[1], x[2]>>
RSub(x, y) == RAdd(x, RNeg(y))
RMul(x, y) == R(x[1] * y[1], x[2] * y[2])
RInv(x) == IF x[1] < 0 THEN <<0 - x[2], 0 - x[1]>> ELSE <<x[2], x[1]>>
RDiv(x, y) == RMul(x, RInv(y))
RLeq(x, y) == x[1] * y[2] <= y[1] * x[2]

(***************************************************************************)
(* The entity graph.  Buses, and the components attached to them, after    *)
(* the example system (wind, rgas, demand, pp_gas, sto_simple on bel and   *)
(* bgas) extended by one entity of every archetype the generators handle.  *)
(***************************************************************************)
Buses == {"bel", "bgas", "bth", "bcoal"}
TransportUids == {"tr_el_th", "tr_th_gas"}
BaseComponents == {"wind", "pv", "rgas", "rcoal", "demand", "pp_gas", "chp",
                   "echp", "sto_simple"}

VARIABLES
    T,            \* len(model.timesteps)
    transports,   \* the Transport entities among model.components
    cap_initial,  \* sto_simple.cap_initial
    cap_loss,     \* sto_simple.cap_loss
    w_ub,         \* upper bounds set on flow variables: var -> bound
    w_fix,        \* flow variables set to a value and fixed: var -> value
    call,         \* the generator invoked last and its arguments
    cons,         \* constraints that generator attached to its block
    aux,          \* auxiliary variables of the block the generator touched
    raised        \* the exception that aborted the assembly, or "none"

vars == <<T, transports, cap_initial, cap_loss, w_ub, w_fix, call, cons,
          aux, raised>>

timesteps == 0 .. (T - 1)

\* A Python sequence indexed from 0.
PyIdx(seq, i) == seq[i + 1]
HasPyIdx(seq, i) == i \in Nat /\ i + 1 \in DOMAIN seq

Range(seq) == {seq[i] : i \in DOMAIN seq}

Bus(u) ==
    CASE u = "bel" ->
           [uid |-> u, balanced |-> TRUE, excess |-> TRUE, shortage |-> FALSE,
            sum_out_limit |-> <<60, 1>>]
      [] u = "bgas" ->
           [uid |-> u, balanced |-> TRUE, excess |-> FALSE, shortage |-> FALSE,
            sum_out_limit |-> Inf]
      [] u = "bth" ->
           [uid |-> u, balanced |-> TRUE, excess |-> TRUE, shortage |-> TRUE,
            sum_out_limit |-> Inf]
      [] u = "bcoal" ->
           [uid |-> u, balanced |-> FALSE, excess |-> FALSE, shortage |-> TRUE,
            sum_out_limit |-> <<20, 1>>]

Comp(u) ==
    CASE u = "wind" ->
           [uid |-> u, cls |-> "FixedSource", inputs |-> <<>>,
            outputs |-> <<"bel">>,
            val |-> <<<<1, 1>>, <<1, 2>>, <<0, 1>>, <<1, 4>>>>,
            out_max |-> <<<<100, 1>>>>, add_out_limit |-> <<50, 1>>]
      [] u = "pv" ->
           [uid |-> u, cls |-> "DispatchSource", inputs |-> <<>>,
            outputs |-> <<"bel">>,
            val |-> <<<<1, 1>>, <<1, 2>>, <<1, 4>>, <<0, 1>>>>,
            out_max |-> <<<<20, 1>>>>]
      [] u = "rgas" ->
           [uid |-> u, cls |-> "Commodity", inputs |-> <<>>,
            outputs |-> <<"bgas">>, sum_out_limit |-> <<30, 1>>]
      [] u = "rcoal" ->
           [uid |-> u, cls |-> "Commodity", inputs |-> <<>>,
            outputs |-> <<"bcoal">>, sum_out_limit |-> Inf]
      [] u = "demand" ->
           [uid |-> u, cls |-> "Sink", inputs |-> <<"bel">>, outputs |-> <<>>]
      [] u = "pp_gas" ->
           [uid |-> u, cls |-> "Simple", inputs |-> <<"bgas">>,
            outputs |-> <<"bel">>, eta |-> <<<<1, 2>>>>,
            out_max |-> <<<<80, 1>>>>, grad_pos |-> <<10, 1>>,
            grad_neg |-> <<5, 1>>]
      [] u = "chp" ->
           [uid |-> u, cls |-> "CHP", inputs |-> <<"bgas">>,
            outputs |-> <<"bel", "bth">>, eta |-> <<<<3, 10>>, <<1, 2>>>>,
            eta_total |-> <<4, 5>>]
      [] u = "echp" ->
           [uid |-> u, cls |-> "SimpleExtractionCHP", inputs |-> <<"bgas">>,
            outputs |-> <<"bel", "bth">>, out_max |-> <<<<40, 1>>, <<60, 1>>>>,
            beta |-> <<1, 5>>, sigma |-> <<1, 2>>, eta_el_cond |-> <<2, 5>>]
      [] u = "sto_simple" ->
           [uid |-> u, cls |-> "Storage", inputs |-> <<"bel">>,
            outputs |-> <<"bel">>, eta_in |-> <<1, 1>>, eta_out |-> <<4, 5>>,
            cap_loss |-> cap_loss, cap_initial |-> cap_initial,
            cap_max |-> <<0, 1>>, c_rate_in |-> <<1, 6>>,
            c_rate_out |-> <<1, 6>>]
      [] u = "tr_el_th" ->
           [uid |-> u, cls |-> "Transport", inputs |-> <<"bel">>,
            outputs |-> <<"bth">>, eta |-> <<<<9, 10>>>>,
            out_max |-> <<<<40, 1>>>>]
      [] u = "tr_th_gas" ->
           [uid |-> u, cls |-> "Transport", inputs |-> <<"bth">>,
            outputs |-> <<"bgas">>, eta |-> <<<<3, 4>>>>,
            out_max |-> <<<<25, 1>>>>]

\* model.components
components == BaseComponents \cup transports

\* isinstance(x, cp.Transport)
IsTransport(u) == u \in TransportUids

\* b.inputs / b.outputs of a bus: the components attached to it.
BusInputs(b) == {c \in components : b \in Range(Comp(c).outputs)}
BusOutputs(b) == {c \in components : b \in Range(Comp(c).inputs)}

\* model.I[e]: the uid of the input of component e; model.O[e]: the uids of
\* its outputs, in the order of the attribute `outputs`.
I(e) == Comp(e).inputs[1]
O(e) == Comp(e).outputs

(***************************************************************************)
(* Variables and linear expressions.                                       *)
(***************************************************************************)
Var(k, a, b, t) == [k |-> k, a |-> a, b |-> b, t |-> t]
\* model.w[e1, e2, t]
W(e1, e2, t) == Var("w", e1, e2, t)
\* A variable indexed by (e, t), and one indexed by e alone.
VarET(k, e, t) == Var(k, e, "", t)
VarE(k, e) == Var(k, e, "", -1)

\* model.edges(objs): the (uid, uid) pairs of the inputs and outputs of objs.
edges(objs) ==
    UNION {{<<i, c>> : i \in Range(Comp(c).inputs)} : c \in objs}
    \cup UNION {{<<c, o>> : o \in Range(Comp(c).outputs)} : c \in objs}

\* The index set of model.w: one flow variable per edge and timestep; a
\* transport is the single edge from its input bus to its output bus.
WEdges ==
    edges(BaseComponents)
    \cup {<<Comp(x).inputs[1], Comp(x).outputs[1]>> : x \in transports}

Term(c, v) == [c |-> c, v |-> v]
\* A linear expression: its terms and its constant.
Expr(terms, const) == [terms |-> terms, const |-> const]
Con(fam, e, t, lhs, rel, rhs) ==
    [fam |-> fam, e |-> e, t |-> t, lhs |-> lhs, rel |-> rel, rhs |-> rhs]

\* An auxiliary variable of a block as a generator leaves it: declared with
\* a domain and bounds lo..hi, given an upper bound (setub), or set to a
\* value and fixed (fix, lo = hi = the value).
NoLo == <<-1, 0>>
Aux(v, what, lo, hi) == [v |-> v, what |-> what, lo |-> lo, hi |-> hi]

\* The block argument of a generator: objs is None when present is FALSE.
Blocks(cands) == {[present |-> TRUE, objs |-> s] : s \in SUBSET cands}
                 \cup {[present |-> FALSE, objs |-> {}]}

\* `not block.objs or block.objs is None`
NoObjs(block) == ~block.present \/ block.objs = {}

\* block.uids, block.indexset: the uids of block.objs, and those uids
\* crossed with the timesteps.
uids(block) == block.objs
indexset(block) == {<<e, t>> : e \in uids(block), t \in timesteps}

\* block.excess_uids, block.shortage_uids: the buses of the block that allow
\* excess, shortage.
excess_uids(block) == {b \in block.objs : Bus(b).excess}
shortage_uids(block) == {b \in block.objs : Bus(b).shortage}

\* A generator call: the function, its block and its further argument.
Call(g, block, arg) == [gen |-> g, block |-> block, arg |-> arg]

\* list.__getitem__: a list takes integer indices only.
IntKey(i) == [ty |-> "int", s |-> "", i |-> i]
StrKey(s) == [ty |-> "str", s |-> s, i |-> -1]
ListHas(seq, key) == key.ty = "int" /\ HasPyIdx(seq, key.i)
ListGet(seq, key) == PyIdx(seq, key.i)

Init ==
    /\ T \in 1 .. MaxT
    /\ transports \in {{}, TransportUids}
    /\ cap_initial \in {<<0, 1>>, <<8, 1>>}
    /\ cap_loss \in {<<0, 1>>, <<1, 2>>}
    /\ w_ub = <<>>
    /\ w_fix = <<>>
    /\ call = Call("none", [present |-> FALSE, objs |-> {}], "")
    /\ cons = {}
    /\ aux = {}
    /\ raised = "none"

Static == UNCHANGED <<T, transports, cap_initial, cap_loss>>

\* An exception leaves the generator g: the assembly stops.
Raise(exc, c) ==
    /\ raised' = exc
    /\ call' = c
    /\ Static

\* The generator touched neither the variable space nor its block.
Untouched ==
    /\ UNCHANGED <<w_ub, w_fix>>
    /\ cons' = {}
    /\ aux' = {}

\* The generator returned.
Return(c) ==
    /\ call' = c
    /\ UNCHANGED raised
    /\ Static

\* v.setub(ub) / v = x; v.fix() for every variable in the domain of new.
Update(old, new) ==
    [v \in DOMAIN old \cup DOMAIN new |->
        IF v \in DOMAIN new THEN new[v] ELSE old[v]]

(***************************************************************************)
(* add_bus_balance                                                         *)
(***************************************************************************)
TransportKey(x) == <<Comp(x).inputs[1], Comp(x).outputs[1]>>
tuples == {TransportKey(x) : x \in transports}
etas == [k \in tuples |->
           Comp(CHOOSE x \in transports : TransportKey(x) = k).eta[1]]
\* out_max filled from the efficiency of the transport, not its capacity.
transport_out_max_from_eta == [k \in tuples |->
           Comp(CHOOSE x \in transports : TransportKey(x) = k).eta[1]]

transport_out_max == [k \in tuples |->
           Comp(CHOOSE x \in transports : TransportKey(x) = k).out_max[1]]

\* uids, I and O of add_bus_balance.
balance_uids(block) == {b \in block.objs : Bus(b).balanced = TRUE}
balance_I(b) == {i \in BusInputs(b) : ~IsTransport(i)}
balance_O(b) == {o \in BusOutputs(b) : ~IsTransport(o)}

\* bus_balance_rule with the transport efficiency on the outflow of the
\* source bus instead of the inflow of the destination bus.
bus_balance_rule_eta_on_outflow(block, e, t) ==
    LET lhs0 == {Term(One, W(i, e, t)) : i \in balance_I(e)}
                \cup {Term(One, W(k[1], e, t)) :
                        k \in {k \in tuples : k[2] = e}}
        rhs0 == {Term(One, W(e, o, t)) : o \in balance_O(e)}
                \cup {Term(etas[k], W(e, k[2], t)) :
                        k \in {k \in tuples : k[1] = e}}
        rhs1 == IF e \in excess_uids(block)
                THEN rhs0 \cup {Term(One, VarET("excess_slack", e, t))}
                ELSE rhs0
        lhs1 == IF e \in shortage_uids(block)
                THEN lhs0 \cup {Term(One, VarET("shortage_slack", e, t))}
                ELSE lhs0
    IN Con("balance", e, t, Expr(lhs1, Zero), "==", Expr(rhs1, Zero))

bus_balance_rule(block, e, t) ==
    LET lhs0 == {Term(One, W(i, e, t)) : i \in balance_I(e)}
                \cup {Term(etas[k], W(k[1], e, t)) :
                        k \in {k \in tuples : k[2] = e}}
        rhs0 == {Term(One, W(e, o, t)) : o \in balance_O(e)}
                \cup {Term(One, W(e, k[2], t)) :
                        k \in {k \in tuples : k[1] = e}}
        rhs1 == IF e \in excess_uids(block)
                THEN rhs0 \cup {Term(One, VarET("excess_slack", e, t))}
                ELSE rhs0
        lhs1 == IF e \in shortage_uids(block)
                THEN lhs0 \cup {Term(One, VarET("shortage_slack", e, t))}
                ELSE lhs0
    IN Con("balance", e, t, Expr(lhs1, Zero), "==", Expr(rhs1, Zero))

add_bus_balance(block) ==
    /\ raised = "none"
    /\ IF NoObjs(block)
       THEN /\ Raise("ValueError", Call("add_bus_balance", block, ""))
            /\ Untouched
       ELSE /\ w_ub' = Update(w_ub,
                         [v \in {W(k[1], k[2], t) : k \in tuples,
                                                   t \in timesteps}
                          |-> transport_out_max[<<v.a, v.b>>]])
            /\ cons' = {bus_balance_rule(block, e, t) :
                          e \in balance_uids(block), t \in timesteps}
            /\ aux' = {}
            /\ UNCHANGED w_fix
            /\ Return(Call("add_bus_balance", block, ""))

(***************************************************************************)
(* add_simple_io_relation, add_eta_total_chp_relation,                     *)
(* add_simple_chp_relation, add_simple_extraction_chp_relation             *)
(***************************************************************************)
\* eta[e][idx] and model.O[e][idx] exist.
io_rule_defined(e, idx) ==
    /\ ListHas(Comp(e).eta, IntKey(idx))
    /\ ListHas(O(e), IntKey(idx))

\* io_rule with the efficiency applied to the output instead of the input.
io_rule_eta_on_output(e, t, idx) ==
    Con("io_relation", e, t,
        Expr({Term(One, W(I(e), e, t)),
              Term(RNeg(PyIdx(Comp(e).eta, idx)),
                   W(e, PyIdx(O(e), idx), t))}, Zero),
        "==", Expr({}, Zero))

\* io_rule with the efficiency read at the timestep, eta[e][t], where eta
\* has an entry for it.
io_rule_eta_of_timestep(e, t, idx) ==
    Con("io_relation", e, t,
        Expr({Term(IF HasPyIdx(Comp(e).eta, t) THEN PyIdx(Comp(e).eta, t)
                   ELSE PyIdx(Comp(e).eta, idx), W(I(e), e, t)),
              Term(RNeg(One), W(e, PyIdx(O(e), idx), t))}, Zero),
        "==", Expr({}, Zero))

io_rule(e, t, idx) ==
    Con("io_relation", e, t,
        Expr({Term(PyIdx(Comp(e).eta, idx), W(I(e), e, t)),
              Term(RNeg(One), W(e, PyIdx(O(e), idx), t))}, Zero),
        "==", Expr({}, Zero))

add_simple_io_relation(block, idx) ==
    LET c == Call("add_simple_io_relation", block, ToString(idx)) IN
    /\ raised = "none"
    /\ IF NoObjs(block)
       THEN /\ Raise("ValueError", c)
            /\ Untouched
       ELSE IF \E e \in uids(block) : ~io_rule_defined(e, idx)
       THEN /\ Raise("IndexError", c)
            /\ Untouched
       ELSE /\ cons' = {io_rule(x[1], x[2], idx) : x \in indexset(block)}
            /\ aux' = {}
            /\ UNCHANGED <<w_ub, w_fix>>
            /\ Return(c)

ioo_rule(e, t) ==
    Con("ioo_relation", e, t,
        Expr({Term(Comp(e).eta_total, W(I(e), e, t))}, Zero),
        "==",
        Expr({Term(One, W(e, PyIdx(O(e), 0), t)),
              Term(One, W(e, PyIdx(O(e), 1), t))}, Zero))

add_eta_total_chp_relation(block) ==
    LET c == Call("add_eta_total_chp_relation", block, "") IN
    /\ raised = "none"
    /\ IF NoObjs(block)
       THEN /\ Raise("ValueError", c)
            /\ Untouched
       ELSE /\ cons' = {ioo_rule(x[1], x[2]) : x \in indexset(block)}
            /\ aux' = {}
            /\ UNCHANGED <<w_ub, w_fix>>
            /\ Return(c)

simple_chp_rule(e, t) ==
    Con("pth_relation", e, t,
        Expr({Term(RDiv(One, PyIdx(Comp(e).eta, 0)),
                   W(e, PyIdx(O(e), 0), t)),
              Term(RNeg(RDiv(One, PyIdx(Comp(e).eta, 1))),
                   W(e, PyIdx(O(e), 1), t))}, Zero),
        "==", Expr({}, Zero))

add_simple_chp_relation(block) ==
    LET c == Call("add_simple_chp_relation", block, "") IN
    /\ raised = "none"
    /\ IF NoObjs(block)
       THEN /\ Raise("ValueError", c)
            /\ Untouched
       ELSE /\ cons' = {simple_chp_rule(x[1], x[2]) : x \in indexset(block)}
            /\ aux' = {}
            /\ UNCHANGED <<w_ub, w_fix>>
            /\ Return(c)

equivalent_output_rule(e, t) ==
    Con("equivalent_output", e, t,
        Expr({Term(One, W(I(e), e, t))}, Zero),
        "==",
        Expr({Term(RDiv(One, Comp(e).eta_el_cond), W(e, PyIdx(O(e), 0), t)),
              Term(RDiv(Comp(e).beta, Comp(e).eta_el_cond),
                   W(e, PyIdx(O(e), 1), t))}, Zero))

\* power_heat_rule as an equality, P == sigma * Q.
power_heat_rule_equality(e, t) ==
    Con("pth_relation", e, t,
        Expr({Term(One, W(e, PyIdx(O(e), 0), t))}, Zero),
        "==",
        Expr({Term(Comp(e).sigma, W(e, PyIdx(O(e), 1), t))}, Zero))

power_heat_rule(e, t) ==
    Con("pth_relation", e, t,
        Expr({Term(One, W(e, PyIdx(O(e), 0), t))}, Zero),
        "<=",
        Expr({Term(Comp(e).sigma, W(e, PyIdx(O(e), 1), t))}, Zero))

add_simple_extraction_chp_relation(block) ==
    LET c == Call("add_simple_extraction_chp_relation", block, "") IN
    /\ raised = "none"
    /\ IF NoObjs(block)
       THEN /\ Raise("ValueError", c)
            /\ Untouched
       ELSE /\ cons' = {equivalent_output_rule(x[1], x[2]) :
                          x \in indexset(block)}
                       \cup {power_heat_rule(x[1], x[2]) :
                               x \in indexset(block)}
            /\ aux' = {}
            /\ UNCHANGED <<w_ub, w_fix>>
            /\ Return(c)

(***************************************************************************)
(* add_global_output_limit                                                 *)
(***************************************************************************)
\* obj.sum_out_limit and obj.outputs of a bus or a component.
sum_out_limit(e) ==
    IF e \in Buses THEN Bus(e).sum_out_limit ELSE Comp(e).sum_out_limit
outputs(e) == IF e \in Buses THEN BusOutputs(e) ELSE Range(Comp(e).outputs)

\* O[e] of add_global_output_limit: a transport among the outputs is
\* replaced by the uid of its own first output.
\* O[e] of add_global_output_limit with the transports left out.
limit_O_without_transports(e) == {o \in outputs(e) : ~IsTransport(o)}

limit_O(e) ==
    {IF ~IsTransport(o) THEN o ELSE Comp(o).outputs[1] : o \in outputs(e)}

\* The terms of sum(model.w[e, o, t] for t in model.timesteps for o in O[e]).
limit_sum(e) == {Term(One, W(e, o, t)) : t \in timesteps, o \in limit_O(e)}

\* isinstance(lhs, (int, float)): the sum had no variable in it.
IsNumber(terms) == terms = {}

\* output_limit_skip without the test for an unbounded limit.
output_limit_skip_number_only(e) == IsNumber(limit_sum(e))

\* TRUE when output_limit_rule returns Constraint.Skip.
output_limit_skip(e) == IsNumber(limit_sum(e)) \/ sum_out_limit(e) = Inf

output_limit_rule(e) ==
    Con("global_limit", e, -1,
        Expr(limit_sum(e), RNeg(sum_out_limit(e))), "<=", Expr({}, Zero))

add_global_output_limit(block) ==
    LET c == Call("add_global_output_limit", block, "") IN
    /\ raised = "none"
    /\ IF NoObjs(block)
       THEN /\ Raise("ValueError", c)
            /\ Untouched
       ELSE /\ cons' = {output_limit_rule(e) :
                          e \in {e \in uids(block) : ~output_limit_skip(e)}}
            /\ aux' = {}
            /\ UNCHANGED <<w_ub, w_fix>>
            /\ Return(c)

(***************************************************************************)
(* add_fixed_source, add_dispatch_source                                   *)
(***************************************************************************)
\* block.optimization_options.get('investment', False)
investment(opt) == opt = "True"

\* rated_value without the rated capacity.
rated_value_unscaled(e, t) == PyIdx(Comp(e).val, t)

\* val[e][t] * out_max[e][0]
rated_value(e, t) ==
    RMul(PyIdx(Comp(e).val, t), ListGet(Comp(e).out_max, IntKey(0)))

\* The key invest_rule indexes out_max[e] with: model.O[e][0], a uid.
invest_out_max_key(e) == StrKey(PyIdx(O(e), 0))

invest_rule_defined(e) == ListHas(Comp(e).out_max, invest_out_max_key(e))

invest_rule(e, t) ==
    Con("invest", e, t,
        Expr({Term(One, W(e, PyIdx(O(e), 0), t))}, Zero),
        "==",
        Expr({Term(PyIdx(Comp(e).val, t), VarE("add_out", e))},
             RMul(ListGet(Comp(e).out_max, invest_out_max_key(e)),
                  PyIdx(Comp(e).val, t))))

add_fixed_source(block, opt) ==
    LET c == Call("add_fixed_source", block, opt) IN
    /\ raised = "none"
    /\ IF NoObjs(block)
       THEN /\ Raise("ValueError", c)
            /\ Untouched
       ELSE IF ~investment(opt)
       THEN /\ w_fix' = Update(w_fix,
                          [v \in {W(x[1], x[2], t) : x \in edges(block.objs),
                                                    t \in timesteps}
                           |-> rated_value(v.a, v.t)])
            /\ cons' = {}
            /\ aux' = {}
            /\ UNCHANGED w_ub
            /\ Return(c)
       ELSE /\ aux' = {Aux(VarE("add_out", e), "setub", NoLo,
                           Comp(e).add_out_limit) : e \in uids(block)}
            /\ UNCHANGED <<w_ub, w_fix>>
            /\ IF \E e \in uids(block) : ~invest_rule_defined(e)
               THEN /\ Raise("TypeError", c)
                    /\ cons' = {}
               ELSE /\ cons' = {invest_rule(x[1], x[2]) :
                                  x \in indexset(block)}
                    /\ Return(c)

\* curtailment_source_rule without the flow subtracted from the potential.
curtailment_source_rule_no_flow(e, t) ==
    Con("curtailment", e, t,
        Expr({Term(One, VarET("curtailment_var", e, t))}, Zero),
        "==", Expr({}, rated_value(e, t)))

curtailment_source_rule(e, t) ==
    Con("curtailment", e, t,
        Expr({Term(One, VarET("curtailment_var", e, t))}, Zero),
        "==",
        Expr({Term(RNeg(One), W(e, PyIdx(O(e), 0), t))}, rated_value(e, t)))

add_dispatch_source(block) ==
    LET c == Call("add_dispatch_source", block, "") IN
    /\ raised = "none"
    /\ IF NoObjs(block)
       THEN /\ Raise("ValueError", c)
            /\ Untouched
       ELSE /\ aux' = {Aux(VarET("curtailment_var", x[1], x[2]), "declared",
                           Zero, Inf) : x \in indexset(block)}
            /\ w_ub' = Update(w_ub,
                         [v \in {W(x[1], x[2], t) : x \in edges(block.objs),
                                                   t \in timesteps}
                          |-> rated_value(v.a, v.t)])
            /\ cons' = {curtailment_source_rule(x[1], x[2]) :
                          x \in indexset(block)}
            /\ UNCHANGED w_fix
            /\ Return(c)

(***************************************************************************)
(* add_storage_balance, add_storage_charge_discharge_limits                *)
(***************************************************************************)
\* t_last one past the last timestep, len(model.timesteps).
t_last_past_the_end == T

t_last == T - 1

\* storage_balance_rule without the self-discharge of the stored energy.
storage_balance_rule_no_loss(e, t) ==
    LET flows == {Term(RNeg(Comp(e).eta_in), W(I(e), e, t)),
                  Term(RDiv(One, Comp(e).eta_out), W(e, PyIdx(O(e), 0), t))}
    IN IF t = 0
       THEN Con("balance", e, t,
                Expr({Term(One, VarET("cap", e, t))} \cup flows,
                     RNeg(Comp(e).cap_initial)),
                "==", Expr({}, Zero))
       ELSE Con("balance", e, t,
                Expr({Term(One, VarET("cap", e, t)),
                      Term(RNeg(One), VarET("cap", e, t - 1))} \cup flows,
                     Zero),
                "==", Expr({}, Zero))

\* storage_balance_rule without the charged energy in the balance of t = 0.
storage_balance_rule_no_first_charge(e, t) ==
    LET flows == {Term(RNeg(Comp(e).eta_in), W(I(e), e, t)),
                  Term(RDiv(One, Comp(e).eta_out), W(e, PyIdx(O(e), 0), t))}
    IN IF t = 0
       THEN Con("balance", e, t,
                Expr({Term(One, VarET("cap", e, t)),
                      Term(RDiv(One, Comp(e).eta_out),
                           W(e, PyIdx(O(e), 0), t))},
                     RNeg(Comp(e).cap_initial)),
                "==", Expr({}, Zero))
       ELSE Con("balance", e, t,
                Expr({Term(One, VarET("cap", e, t)),
                      Term(RNeg(RSub(One, Comp(e).cap_loss)),
                           VarET("cap", e, t - 1))} \cup flows, Zero),
                "==", Expr({}, Zero))

storage_balance_rule(e, t) ==
    LET flows == {Term(RNeg(Comp(e).eta_in), W(I(e), e, t)),
                  Term(RDiv(One, Comp(e).eta_out), W(e, PyIdx(O(e), 0), t))}
    IN IF t = 0
       THEN Con("balance", e, t,
                Expr({Term(One, VarET("cap", e, t))} \cup flows,
                     RNeg(Comp(e).cap_initial)),
                "==", Expr({}, Zero))
       ELSE Con("balance", e, t,
                Expr({Term(One, VarET("cap", e, t)),
                      Term(RNeg(RSub(One, Comp(e).cap_loss)),
                           VarET("cap", e, t - 1))} \cup flows, Zero),
                "==", Expr({}, Zero))

add_storage_balance(block) ==
    LET c == Call("add_storage_balance", block, "") IN
    /\ raised = "none"
    /\ IF NoObjs(block)
       THEN /\ Raise("ValueError", c)
            /\ Untouched
       ELSE /\ aux' = {Aux(VarET("cap", e, t_last), "fix",
                           Comp(e).cap_initial, Comp(e).cap_initial) :
                         e \in uids(block)}
            /\ cons' = {storage_balance_rule(x[1], x[2]) :
                          x \in indexset(block)}
            /\ UNCHANGED <<w_ub, w_fix>>
            /\ Return(c)

\* storage_discharge_limit_rule with the charge rate for the discharge rate
\* and without the investment variable.
storage_discharge_limit_rule_fixed_cap(e, t) ==
    Con("discharge_limit_invest", e, t,
        Expr({Term(One, W(e, PyIdx(O(e), 0), t))},
             RNeg(RMul(Comp(e).cap_max, Comp(e).c_rate_out))),
        "<=", Expr({}, Zero))

storage_discharge_limit_rule(e, t) ==
    Con("discharge_limit_invest", e, t,
        Expr({Term(One, W(e, PyIdx(O(e), 0), t)),
              Term(RNeg(Comp(e).c_rate_out), VarE("add_cap", e))},
             RNeg(RMul(Comp(e).cap_max, Comp(e).c_rate_out))),
        "<=", Expr({}, Zero))

\* The index of the flow variable storage_charge_limit_rule reads.
charge_limit_edge(e) == <<e, I(e)>>

storage_charge_limit_rule(e, t) ==
    Con("charge_limit_invest", e, t,
        Expr({Term(One, W(charge_limit_edge(e)[1], charge_limit_edge(e)[2],
                          t)),
              Term(RNeg(Comp(e).c_rate_in), VarE("add_cap", e))},
             RNeg(RMul(Comp(e).cap_max, Comp(e).c_rate_in))),
        "<=", Expr({}, Zero))

add_storage_charge_discharge_limits(block) ==
    LET c == Call("add_storage_charge_discharge_limits", block, "") IN
    /\ raised = "none"
    /\ UNCHANGED <<w_ub, w_fix>>
    /\ IF ~block.present
       THEN /\ Raise("TypeError", c)
            /\ cons' = {} /\ aux' = {}
       ELSE IF \E e \in uids(block) : charge_limit_edge(e) \notin WEdges
       THEN /\ Raise("KeyError", c)
            /\ cons' = {} /\ aux' = {}
       ELSE /\ cons' = {storage_discharge_limit_rule(e, t) :
                          e \in uids(block), t \in timesteps}
                       \cup {storage_charge_limit_rule(e, t) :
                               e \in uids(block), t \in timesteps}
            /\ aux' = {}
            /\ Return(c)

(***************************************************************************)
(* add_output_gradient_calc                                                *)
(***************************************************************************)
grad_pos_calc_rule(e, t) ==
    Con("grad_pos_calc", e, t,
        Expr({Term(One, W(e, PyIdx(O(e), 0), t)),
              Term(RNeg(One), W(e, PyIdx(O(e), 0), t - 1))}, Zero),
        "<=", Expr({Term(One, VarET("grad_pos_var", e, t))}, Zero))

\* grad_neg_calc_rule with the difference of grad_pos_calc_rule.
grad_neg_calc_rule_rising(e, t) ==
    Con("grad_neg_calc", e, t,
        Expr({Term(One, W(e, PyIdx(O(e), 0), t)),
              Term(RNeg(One), W(e, PyIdx(O(e), 0), t - 1))}, Zero),
        "<=", Expr({Term(One, VarET("grad_neg_var", e, t))}, Zero))

grad_neg_calc_rule(e, t) ==
    Con("grad_neg_calc", e, t,
        Expr({Term(One, W(e, PyIdx(O(e), 0), t - 1)),
              Term(RNeg(One), W(e, PyIdx(O(e), 0), t))}, Zero),
        "<=", Expr({Term(One, VarET("grad_neg_var", e, t))}, Zero))

\* The variables and constraints of one direction of the gradient.
grad_pos_part(block) ==
    [aux |-> {Aux(VarET("grad_pos_var", x[1], x[2]), "declared", Zero,
                  Comp(x[1]).grad_pos) : x \in indexset(block)},
     cons |-> {grad_pos_calc_rule(x[1], x[2]) :
                 x \in {x \in indexset(block) : x[2] > 0}}]

grad_neg_part(block) ==
    [aux |-> {Aux(VarET("grad_neg_var", x[1], x[2]), "declared", Zero,
                  Comp(x[1]).grad_neg) : x \in indexset(block)},
     cons |-> {grad_neg_calc_rule(x[1], x[2]) :
                 x \in {x \in indexset(block) : x[2] > 0}}]

NoPart == [aux |-> {}, cons |-> {}]

add_output_gradient_calc(block, grad_direc) ==
    LET c == Call("add_output_gradient_calc", block, grad_direc)
        pos == IF grad_direc = "positive" \/ grad_direc = "both"
               THEN grad_pos_part(block) ELSE NoPart
        neg == IF grad_direc = "negative" \/ grad_direc = "both"
               THEN grad_neg_part(block) ELSE NoPart
    IN
    /\ raised = "none"
    /\ UNCHANGED <<w_ub, w_fix>>
    /\ IF NoObjs(block)
       THEN /\ Raise("ValueError", c)
            /\ cons' = {} /\ aux' = {}
       ELSE /\ aux' = pos.aux \cup neg.aux
            /\ cons' = pos.cons \cup neg.cons
            /\ Return(c)

Next ==
    \/ \E block \in Blocks(Buses) : add_bus_balance(block)
    \/ \E block \in Blocks({"pp_gas", "chp"}), idx \in 0 .. 1 :
          add_simple_io_relation(block, idx)
    \/ \E block \in Blocks({"chp"}) : add_eta_total_chp_relation(block)
    \/ \E block \in Blocks({"chp"}) : add_simple_chp_relation(block)
    \/ \E block \in Blocks({"echp"}) :
          add_simple_extraction_chp_relation(block)
    \/ \E block \in Blocks({"rgas", "rcoal", "bel", "bcoal"}) :
          add_global_output_limit(block)
    \/ \E block \in Blocks({"wind"}), opt \in {"absent", "False", "True"} :
          add_fixed_source(block, opt)
    \/ \E block \in Blocks({"pv"}) : add_dispatch_source(block)
    \/ \E block \in Blocks({"sto_simple"}) : add_storage_balance(block)
    \/ \E block \in Blocks({"sto_simple"}) :
          add_storage_charge_discharge_limits(block)
    \/ \E block \in Blocks({"pp_gas"}),
          grad_direc \in {"positive", "negative", "both"} :
          add_output_gradient_calc(block, grad_direc)

Spec == Init /\ [][Next]_vars

(***************************************************************************)
(* What a constraint states, and which assignments satisfy a set of        *)
(* constraints together with the bounds and fixings of their variables.    *)
(***************************************************************************)
RECURSIVE SumCoef(_, _)
SumCoef(terms, v) ==
    IF terms = {} THEN Zero
    ELSE LET x == CHOOSE x \in terms : TRUE
         IN RAdd(IF x.v = v THEN x.c ELSE Zero, SumCoef(terms \ {x}, v))

VarsOfCon(c) == {x.v : x \in c.lhs.terms \cup c.rhs.terms}
VarsOf(cs) == UNION {VarsOfCon(c) : c \in cs}

\* lhs - rhs with the terms of each variable collected.
Net(c) ==
    [terms |-> {x \in {Term(RSub(SumCoef(c.lhs.terms, v),
                                 SumCoef(c.rhs.terms, v)), v) :
                         v \in VarsOfCon(c)} : x.c # Zero},
     const |-> RSub(c.lhs.const, c.rhs.const)]

\* Two constraints relate the same variables in the same way.
SameRelation(c, d) == c.rel = d.rel /\ Net(c) = Net(d)

\* The constraints of family fam with index (e, t).
Family(fam, e, t) == {c \in cons : c.fam = fam /\ c.e = e /\ c.t = t}

\* Exactly one constraint of family fam has index (e, t), and it states d.
EmitsOnly(fam, e, t, d) ==
    /\ Cardinality(Family(fam, e, t)) = 1
    /\ \A c \in Family(fam, e, t) : SameRelation(c, d)

\* Values an assignment gives a variable.
Vals == {0, 4, 5, 8, 10, 20}

RECURSIVE EvalTerms(_, _)
EvalTerms(terms, a) ==
    IF terms = {} THEN Zero
    ELSE LET x == CHOOSE x \in terms : TRUE
         IN RAdd(RMul(x.c, <<a[x.v], 1>>), EvalTerms(terms \ {x}, a))

Eval(expr, a) == RAdd(expr.const, EvalTerms(expr.terms, a))

Holds(c, a) ==
    IF c.rel = "==" THEN Eval(c.lhs, a) = Eval(c.rhs, a)
    ELSE RLeq(Eval(c.lhs, a), Eval(c.rhs, a))

\* The value x respects the bound and fixing of variable v.
Admits(v, x) ==
    /\ v \in DOMAIN w_fix => <<x, 1>> = w_fix[v]
    /\ v \in DOMAIN w_ub => RLeq(<<x, 1>>, w_ub[v])
    /\ \A d \in aux :
          d.v = v =>
            /\ d.lo # NoLo => RLeq(d.lo, <<x, 1>>)
            /\ d.hi # Inf => RLeq(<<x, 1>>, d.hi)

\* The variable assigned next: one that completes a constraint if there is
\* one, else one of the earliest timestep.
NextVar(a, rest, cs) ==
    LET closing == {v \in rest : \E c \in cs :
                      v \in VarsOfCon(c)
                      /\ VarsOfCon(c) \ {v} \subseteq DOMAIN a}
        pool == IF closing # {} THEN closing ELSE rest
    IN CHOOSE v \in pool : \A u \in pool : v.t <= u.t

RECURSIVE Extend(_, _, _)
Extend(a, rest, cs) ==
    IF rest = {} THEN {a}
    ELSE LET v == NextVar(a, rest, cs)
             ok(x) == LET b == [u \in DOMAIN a \cup {v} |->
                                  IF u = v THEN x ELSE a[u]]
                      IN /\ Admits(v, x)
                         /\ \A c \in cs :
                              (v \in VarsOfCon(c)
                               /\ VarsOfCon(c) \subseteq DOMAIN b)
                              => Holds(c, b)
         IN UNION {Extend([u \in DOMAIN a \cup {v} |->
                             IF u = v THEN x ELSE a[u]], rest \ {v}, cs) :
                     x \in {x \in Vals : ok(x)}}

\* The assignments over Vals of the variables of cs that satisfy cs.
SolutionsOf(cs) == Extend(<<>>, VarsOf(cs), cs)

\* The generator g has returned from a call with at least one object.
Returned(g) ==
    call.gen = g /\ raised = "none" /\ ~NoObjs(call.block)

(***************************************************************************)
(* Bus balance                                                             *)
(***************************************************************************)
\* The balance of bus e at t as the contract words it: inflows from the
\* inputs that are no transport, plus the inflow of every transport ending
\* at e times its efficiency, plus the shortage slack, equal the outflows to
\* the outputs that are no transport, plus the outflow of every transport
\* starting at e, plus the excess slack.
BalanceContract(e, t) ==
    LET ending == {x \in transports : Comp(x).outputs[1] = e}
        starting == {x \in transports : Comp(x).inputs[1] = e}
        inflow == {Term(One, W(i, e, t)) : i \in BusInputs(e) \ transports}
                  \cup {Term(Comp(x).eta[1], W(Comp(x).inputs[1], e, t)) :
                          x \in ending}
                  \cup (IF Bus(e).shortage
                        THEN {Term(One, VarET("shortage_slack", e, t))}
                        ELSE {})
        outflow == {Term(One, W(e, o, t)) : o \in BusOutputs(e) \ transports}
                   \cup {Term(One, W(e, Comp(x).outputs[1], t)) :
                           x \in starting}
                   \cup (IF Bus(e).excess
                         THEN {Term(One, VarET("excess_slack", e, t))}
                         ELSE {})
    IN Con("balance", e, t, Expr(inflow, Zero), "==", Expr(outflow, Zero))

\* C1: after add_bus_balance every balanced bus of the block has, at every
\* timestep, exactly one balance constraint, which states the contract's
\* balance; a bus that is not balanced has none.
C1_BusBalance ==
    Returned("add_bus_balance") =>
        /\ \A e \in call.block.objs, t \in timesteps :
              Bus(e).balanced => EmitsOnly("balance", e, t,
                                           BalanceContract(e, t))
        /\ \A c \in cons :
              c.fam = "balance" /\ c.e \in call.block.objs
              /\ Bus(c.e).balanced /\ c.t \in timesteps

\* A block with balanced buses at both ends of a transport and a bus that
\* is not balanced has been given its balances.
C1_Witness ==
    /\ Returned("add_bus_balance")
    /\ call.block.objs = Buses
    /\ transports = TransportUids
    /\ T >= 2
    /\ cons # {}

(***************************************************************************)
(* Storage                                                                 *)
(***************************************************************************)
\* The flow variables of the edges of the components of the block.
BlockFlows == {W(x[1], x[2], t) : x \in edges(call.block.objs),
                                 t \in timesteps}

\* The assignments to the flow variables of a block of components and to
\* its auxiliary variables that satisfy the constraints of the block and
\* respect the bounds and fixings the generators made.
Solutions ==
    Extend(<<>>, VarsOf(cons) \cup {d.v : d \in aux} \cup BlockFlows, cons)

\* The capacity recursion of storage e under assignment a.
CapRecursion(e, a) ==
    LET in(t) == RMul(<<a[W(I(e), e, t)], 1>>, Comp(e).eta_in)
        out(t) == RDiv(<<a[W(e, O(e)[1], t)], 1>>, Comp(e).eta_out)
        cap(t) == <<a[VarET("cap", e, t)], 1>>
    IN /\ cap(0) = RSub(RAdd(Comp(e).cap_initial, in(0)), out(0))
       /\ \A t \in timesteps \ {0} :
             cap(t) = RSub(RAdd(RMul(cap(t - 1),
                                     RSub(One, Comp(e).cap_loss)), in(t)),
                           out(t))
       /\ cap(T - 1) = Comp(e).cap_initial

\* C2: every assignment that satisfies the constraints of
\* add_storage_balance satisfies the capacity recursion at t = 0 and at
\* every t > 0 and has CAP(e, last timestep) = cap_initial(e).
C2_StorageRecursion ==
    Returned("add_storage_balance") =>
        \A a \in Solutions : \A e \in call.block.objs : CapRecursion(e, a)

\* A horizon of two timesteps or more has a solution that charges the
\* storage at t = 0.
C2_Witness ==
    /\ Returned("add_storage_balance")
    /\ T >= 2
    /\ \E a \in Solutions : a[W("bel", "sto_simple", 0)] > 0

\* The limit of the contract on the flow on edge (e1, e2) of storage e.
RateLimitContract(fam, e, e1, e2, t, c_rate) ==
    Con(fam, e, t, Expr({Term(One, W(e1, e2, t))}, Zero), "<=",
        Expr({Term(c_rate, VarE("add_cap", e))},
             RMul(Comp(e).cap_max, c_rate)))

\* C3: the charge limit of every storage e at every t bounds the flow into
\* the storage: W(I(e), e, t) <= (cap_max(e) + ADDCAP(e)) * c_rate_in(e).
C3_ChargeLimitBoundsInflow ==
    Returned("add_storage_charge_discharge_limits") =>
        \A e \in call.block.objs, t \in timesteps :
            EmitsOnly("charge_limit_invest", e, t,
                      RateLimitContract("charge_limit_invest", e, I(e), e, t,
                                        Comp(e).c_rate_in))

\* C4: the discharge limit of every storage e at every t is
\* W(e, O(e)[0], t) <= (cap_max(e) + ADDCAP(e)) * c_rate_out(e).
C4_DischargeLimit ==
    Returned("add_storage_charge_discharge_limits") =>
        \A e \in call.block.objs, t \in timesteps :
            EmitsOnly("discharge_limit_invest", e, t,
                      RateLimitContract("discharge_limit_invest", e, e,
                                        O(e)[1], t, Comp(e).c_rate_out))

\* The limits of a storage have been emitted for two timesteps or more.
C4_Witness ==
    /\ Returned("add_storage_charge_discharge_limits")
    /\ T >= 2
    /\ \E c \in cons : c.fam = "discharge_limit_invest" /\ c.t = T - 1

(***************************************************************************)
(* Sources                                                                 *)
(***************************************************************************)
\* normalized_value(e, t) * rated_capacity(e)
Potential(e, t) == RMul(Comp(e).val[t + 1], Comp(e).out_max[1])

\* C5: without the investment option add_fixed_source sets the flow of
\* every edge (e, out) of every source of the block at every t to
\* normalized_value(e, t) * rated_capacity(e) and fixes it, so that no other
\* value is admitted, and adds no constraint and no ADDOUT bound.
C5_FixedSourcePinned ==
    (Returned("add_fixed_source") /\ call.arg \in {"absent", "False"}) =>
        /\ \A e \in call.block.objs, t \in timesteps :
              \A o \in Range(Comp(e).outputs) :
                  /\ W(e, o, t) \in DOMAIN w_fix
                  /\ w_fix[W(e, o, t)] = Potential(e, t)
                  /\ \A x \in 0 .. 100 :
                        Admits(W(e, o, t), x) => <<x, 1>> = Potential(e, t)
        /\ cons = {}
        /\ aux = {}

\* A fixed source has been pinned over two timesteps or more, the option
\* being absent.
C5_Witness ==
    /\ Returned("add_fixed_source")
    /\ call.arg = "absent"
    /\ T >= 2
    /\ W("wind", "bel", 1) \in DOMAIN w_fix

\* C6: with the investment option add_fixed_source bounds ADDOUT(e) by
\* add_out_limit(e) and emits, for every (e, t), the equality
\* W(e, O(e)[0], t) = (rated_capacity(e) + ADDOUT(e)) * normalized_value(e, t)
\* with rated_capacity(e) the first entry of out_max(e).
C6_InvestEquality ==
    (call.gen = "add_fixed_source" /\ call.arg = "True"
     /\ ~NoObjs(call.block)) =>
        /\ raised = "none"
        /\ \A e \in call.block.objs :
              Aux(VarE("add_out", e), "setub", NoLo, Comp(e).add_out_limit)
                  \in aux
        /\ \A e \in call.block.objs, t \in timesteps :
              EmitsOnly("invest", e, t,
                  Con("invest", e, t,
                      Expr({Term(One, W(e, O(e)[1], t))}, Zero), "==",
                      Expr({Term(Comp(e).val[t + 1], VarE("add_out", e))},
                           Potential(e, t))))

\* C7: after add_dispatch_source the flow of every source e of the block at
\* every t is bounded above by normalized_value(e, t) * rated_capacity(e)
\* and not fixed, CURTAIL(e, t) is declared non-negative, and every
\* assignment satisfying the constraints has
\* CURTAIL(e, t) + W(e, out, t) = normalized_value(e, t) * rated_capacity(e).
C7_Curtailment ==
    Returned("add_dispatch_source") =>
        /\ \A e \in call.block.objs, t \in timesteps :
              /\ W(e, O(e)[1], t) \in DOMAIN w_ub
              /\ w_ub[W(e, O(e)[1], t)] = Potential(e, t)
              /\ W(e, O(e)[1], t) \notin DOMAIN w_fix
              /\ \E d \in aux :
                    /\ d.v = VarET("curtailment_var", e, t)
                    /\ d.what = "declared"
                    /\ d.lo = Zero
        /\ \A a \in Solutions :
              \A e \in call.block.objs, t \in timesteps :
                  <<a[VarET("curtailment_var", e, t)] + a[W(e, O(e)[1], t)],
                    1>> = Potential(e, t)

\* A dispatchable source over two timesteps or more has a solution that
\* curtails part of its potential and delivers the rest.
C7_Witness ==
    /\ Returned("add_dispatch_source")
    /\ T >= 2
    /\ \E a \in Solutions :
          /\ a[VarET("curtailment_var", "pv", 1)] > 0
          /\ a[W("pv", "bel", 1)] > 0

(***************************************************************************)
(* Conversion                                                              *)
(***************************************************************************)
\* The output index of the last call of add_simple_io_relation.
CallIdx == IF call.arg = "0" THEN 0 ELSE 1

\* C8: after add_simple_io_relation with output index idx the constraint
\* W(I(e), e, t) * eta(e)[idx] = W(e, O(e)[idx], t) is emitted for every
\* transformer e of the block and every t; with eta = [0.5] an input flow of
\* 20 leaves 10 as the only output flow.
C8_SimpleIo ==
    Returned("add_simple_io_relation") =>
        /\ \A e \in call.block.objs, t \in timesteps :
              EmitsOnly("io_relation", e, t,
                  Con("io_relation", e, t,
                      Expr({Term(Comp(e).eta[CallIdx + 1], W(I(e), e, t))},
                           Zero),
                      "==",
                      Expr({Term(One, W(e, O(e)[CallIdx + 1], t))}, Zero)))
        /\ \A c \in cons :
              Comp(c.e).eta[CallIdx + 1] = <<1, 2>> =>
                  \A a \in SolutionsOf({c}) :
                      a[W(I(c.e), c.e, c.t)] = 20 =>
                          a[W(c.e, O(c.e)[CallIdx + 1], c.t)] = 10

\* The transformer with eta = [0.5] has its relation for two timesteps or
\* more, and an assignment with an input flow of 20 satisfies it.
C8_Witness ==
    /\ Returned("add_simple_io_relation")
    /\ "pp_gas" \in call.block.objs
    /\ T >= 2
    /\ \E c \in cons :
          /\ c.e = "pp_gas"
          /\ c.t = 1
          /\ \E a \in SolutionsOf({c}) : a[W("bgas", "pp_gas", 1)] = 20

(***************************************************************************)
(* Global output limit                                                     *)
(***************************************************************************)
\* The output flow variables of e: the flow variables of the variable
\* space that leave e.
OutFlows(e) == {W(x[1], x[2], t) : x \in {x \in WEdges : x[1] = e},
                                   t \in timesteps}

\* C9: after add_global_output_limit an entity e of the block with a finite
\* sum_out_limit and at least one output flow variable has the constraint
\* sum of its output flows over all timesteps <= sum_out_limit(e); an entity
\* with an infinite limit or without output flows has no constraint; and
\* no error is raised.
C9_GlobalLimit ==
    (call.gen = "add_global_output_limit" /\ ~NoObjs(call.block)) =>
        /\ raised = "none"
        /\ \A e \in call.block.objs :
              IF sum_out_limit(e) # Inf /\ OutFlows(e) # {}
              THEN EmitsOnly("global_limit", e, -1,
                       Con("global_limit", e, -1,
                           Expr({Term(One, v) : v \in OutFlows(e)}, Zero),
                           "<=", Expr({}, sum_out_limit(e))))
              ELSE \A c \in cons : c.e # e

\* The limit has been built for a block holding an entity with a finite
\* limit, one with an infinite limit, one without outputs and a bus with a
\* transport among its outputs.
C9_Witness ==
    /\ Returned("add_global_output_limit")
    /\ call.block.objs = {"rgas", "rcoal", "bel", "bcoal"}
    /\ transports = TransportUids
    /\ T >= 2

(***************************************************************************)
(* Errors                                                                  *)
(***************************************************************************)
\* C10: every generator raises when it is invoked with an empty or missing
\* entity subset, instead of completing.
C10_EmptyBlockRaises ==
    (call.gen # "none" /\ NoObjs(call.block)) => raised # "none"

(***************************************************************************)
(* Extraction CHP                                                          *)
(***************************************************************************)
\* H == (P + beta * Q) / eta_el_cond of extraction unit e at t.
EquivalentInput(e, t) ==
    Con("equivalent_output", e, t,
        Expr({Term(Comp(e).eta_el_cond, W(I(e), e, t))}, Zero),
        "==",
        Expr({Term(One, W(e, O(e)[1], t)),
              Term(Comp(e).beta, W(e, O(e)[2], t))}, Zero))

\* P <= sigma * Q of extraction unit e at t.
PowerToHeatBound(e, t) ==
    Con("pth_relation", e, t,
        Expr({Term(One, W(e, O(e)[1], t)),
              Term(RNeg(Comp(e).sigma), W(e, O(e)[2], t))}, Zero),
        "<=", Expr({}, Zero))

DeclaredWithin(k, e, t, hi) ==
    {d \in aux : d.v = VarET(k, e, t)} =
        {Aux(VarET(k, e, t), "declared", Zero, hi)}

\* W(e, out, t1) - W(e, out, t2) <= the variable k of (e, t).
GradientContract(fam, k, e, t, t1, t2) ==
    Con(fam, e, t,
        Expr({Term(One, W(e, O(e)[1], t1))}, Zero), "<=",
        Expr({Term(One, W(e, O(e)[1], t2)),
              Term(One, VarET(k, e, t))}, Zero))

\* One direction of the gradient is in place for the whole block: the
\* variable at every t, the constraint at every t > 0 and none at t = 0.
DirectionPresent(fam, k, e, hi, rising) ==
    \A t \in timesteps :
        /\ DeclaredWithin(k, e, t, hi)
        /\ IF t > 0
           THEN EmitsOnly(fam, e, t,
                          IF rising
                          THEN GradientContract(fam, k, e, t, t, t - 1)
                          ELSE GradientContract(fam, k, e, t, t - 1, t))
           ELSE Family(fam, e, t) = {}

\* Neither the variables nor the constraints of a direction exist.
DirectionAbsent(fam, k) ==
    /\ \A d \in aux : d.v.k # k
    /\ \A c \in cons : c.fam # fam /\ \A x \in VarsOfCon(c) : x.k # k

\* C12: after add_output_gradient_calc with direction d, for 'positive' or
\* 'both' GRADPOS(e, t) is declared with bounds 0 and gradpos_max(e) and
\* W(e, out, t) - W(e, out, t-1) <= GRADPOS(e, t) is emitted for every
\* t > 0; for 'negative' or 'both' GRADNEG(e, t) is declared with bounds 0
\* and gradneg_max(e) and W(e, out, t-1) - W(e, out, t) <= GRADNEG(e, t) is
\* emitted for every t > 0; no gradient constraint exists at t = 0; with
\* 'positive' nothing of GRADNEG and with 'negative' nothing of GRADPOS is
\* declared.
C12_Gradient ==
    Returned("add_output_gradient_calc") =>
        /\ \A c \in cons : c.t > 0
        /\ IF call.arg \in {"positive", "both"}
           THEN \A e \in call.block.objs :
                   DirectionPresent("grad_pos_calc", "grad_pos_var", e,
                                    Comp(e).grad_pos, TRUE)
           ELSE DirectionAbsent("grad_pos_calc", "grad_pos_var")
        /\ IF call.arg \in {"negative", "both"}
           THEN \A e \in call.block.objs :
                   DirectionPresent("grad_neg_calc", "grad_neg_var", e,
                                    Comp(e).grad_neg, FALSE)
           ELSE DirectionAbsent("grad_neg_calc", "grad_neg_var")
        /\ \A e \in call.block.objs, t \in timesteps \ {0} :
              \A a \in SolutionsOf({c \in cons : c.e = e /\ c.t = t}) :
                /\ call.arg \in {"positive", "both"} =>
                     RLeq(<<a[W(e, O(e)[1], t)] - a[W(e, O(e)[1], t - 1)], 1>>,
                          Comp(e).grad_pos)
                /\ call.arg \in {"negative", "both"} =>
                     RLeq(<<a[W(e, O(e)[1], t - 1)] - a[W(e, O(e)[1], t)], 1>>,
                          Comp(e).grad_neg)

\* Both directions were declared over two timesteps, and the output may fall
\* by the whole negative gradient and rise by the whole positive one.
C12_Witness ==
    /\ Returned("add_output_gradient_calc")
    /\ call.arg = "both"
    /\ T = 2
    /\ "pp_gas" \in call.block.objs
    /\ Family("grad_neg_calc", "pp_gas", 1) # {}
    /\ \E a \in SolutionsOf(cons) :
          a[W("pp_gas", "bel", 0)] = 10 /\ a[W("pp_gas", "bel", 1)] = 5
    /\ \E a \in SolutionsOf(cons) :
          a[W("pp_gas", "bel", 0)] = 10 /\ a[W("pp_gas", "bel", 1)] = 20

(***************************************************************************)
(* Transports in the bus balance                                           *)
(***************************************************************************)
\* The flow variable of the edge of transport x at t.
TransportFlow(x, t) == W(Comp(x).inputs[1], Comp(x).outputs[1], t)

\* The coefficient of variable v in lhs - rhs of constraint c.
NetCoef(c, v) == RSub(SumCoef(c.lhs.terms, v), SumCoef(c.rhs.terms, v))

\* C13: after add_bus_balance, for every transport of the model, whether or
\* not its end buses are balanced or in the block, and every t the flow
\* variable W(from_bus, to_bus, t) has upper bound out_max[0] of the
\* transport; the efficiency of the transport is a factor only on the inflow
\* term of the balance of the destination bus, and the transport has no
\* balance constraint of its own.
C13_TransportInBalance ==
    Returned("add_bus_balance") =>
        \A x \in transports, t \in timesteps :
            /\ TransportFlow(x, t) \in DOMAIN w_ub
            /\ w_ub[TransportFlow(x, t)] = Comp(x).out_max[1]
            /\ \A c \in cons :
                  /\ c.e # x
                  /\ \A v \in VarsOfCon(c) : v.a # x /\ v.b # x
                  /\ TransportFlow(x, t) \in VarsOfCon(c) =>
                       /\ c.t = t
                       /\ c.e \in {Comp(x).inputs[1], Comp(x).outputs[1]}
                       /\ c.e = Comp(x).outputs[1] =>
                            /\ SumCoef(c.lhs.terms, TransportFlow(x, t))
                                 = Comp(x).eta[1]
                            /\ SumCoef(c.rhs.terms, TransportFlow(x, t))
                                 = Zero
                       /\ c.e = Comp(x).inputs[1] =>
                            NetCoef(c, TransportFlow(x, t)) = RNeg(One)
            /\ \A b \in balance_uids(call.block) :
                  b \in {Comp(x).inputs[1], Comp(x).outputs[1]} =>
                      \E c \in Family("balance", b, t) :
                          TransportFlow(x, t) \in VarsOfCon(c)

\* The balance was built for a block without the end buses of the transport
\* from bel to bth, whose flow is bounded all the same, and for a block with
\* its destination bus, whose balance carries the efficiency 9/10.
C13_Witness ==
    /\ Returned("add_bus_balance")
    /\ "tr_el_th" \in transports
    /\ T = 2
    /\ w_ub[W("bel", "bth", 1)] = <<40, 1>>
    /\ \/ call.block.objs = {"bcoal"}
       \/ /\ call.block.objs = {"bth"}
          /\ \E c \in Family("balance", "bth", 1) :
                NetCoef(c, W("bel", "bth", 1)) = <<9, 10>>

(***************************************************************************)
(* Transports among the outputs of a limited entity                        *)
(***************************************************************************)
\* The flow variables from e to its outputs that are no transport, and the
\* flow variables of the edges of the transports among its outputs.
DirectOutFlows(e) ==
    {W(e, o, t) : o \in {o \in outputs(e) : ~IsTransport(o)},
                  t \in timesteps}
TransportOutFlows(e) ==
    {TransportFlow(x, t) : x \in {o \in outputs(e) : IsTransport(o)},
                           t \in timesteps}

\* C14 as stated: the flow variables summed in the global output limit of e
\* are exactly those of the outputs of e that are no transport; a transport
\* among the outputs contributes no flow variable.
C14_NonTransportOutputsOnly ==
    Returned("add_global_output_limit") =>
        \A c \in cons : VarsOfCon(c) = DirectOutFlows(c.e)

\* C14, amended: the flow variables summed in the global output limit of e
\* are those of all outputs of e: W(e, o, t) for an output o that is no
\* transport, and for a transport among the outputs the flow variable
\* W(e, to_bus, t) of the edge of the transport.
C14_AllOutputsSummed ==
    Returned("add_global_output_limit") =>
        \A c \in cons :
            /\ VarsOfCon(c) = DirectOutFlows(c.e) \cup TransportOutFlows(c.e)
            /\ TransportOutFlows(c.e) \subseteq {x.v : x \in c.lhs.terms}
            /\ c.rhs.terms = {}

\* The limit of bus bel was built while bel has a transport among its
\* outputs, and the flow of the transport edge is in the sum.
C14_Witness ==
    /\ Returned("add_global_output_limit")
    /\ "bel" \in call.block.objs
    /\ "tr_el_th" \in outputs("bel")
    /\ \E c \in Family("global_limit", "bel", -1) :
          /\ W("bel", "bth", 0) \in VarsOfCon(c)
          /\ W("bel", "demand", 0) \in VarsOfCon(c)

(***************************************************************************)
(* Efficiency and timestep                                                 *)
(***************************************************************************)
\* eta of e holds one value per timestep of the horizon.
EtaPerTimestep(e) == Len(Comp(e).eta) = T

\* The constraint c of (e, t) converts the input flow of e into the output
\* flow of index CallIdx with efficiency x.
ConvertsWith(c, e, t, x) ==
    /\ c.rel = "=="
    /\ VarsOfCon(c) = {W(I(e), e, t), W(e, O(e)[CallIdx + 1], t)}
    /\ NetCoef(c, W(I(e), e, t)) =
         RMul(x, RNeg(NetCoef(c, W(e, O(e)[CallIdx + 1], t))))
    /\ NetCoef(c, W(I(e), e, t)) # Zero

\* C15 as stated: in add_simple_io_relation the constraint of a transformer
\* whose eta is a per-timestep sequence uses at t the efficiency of
\* timestep t, and any other eta gives the same value, eta(e)[idx], at
\* every t.
C15_EtaOfTimestep ==
    Returned("add_simple_io_relation") =>
        \A e \in call.block.objs, t \in timesteps :
            \A c \in Family("io_relation", e, t) :
                ConvertsWith(c, e, t,
                             IF EtaPerTimestep(e) THEN Comp(e).eta[t + 1]
                             ELSE Comp(e).eta[CallIdx + 1])

\* C15, amended: in add_simple_io_relation the efficiency does not vary by
\* timestep: the constraint of transformer e at every t uses eta(e)[idx],
\* the entry of eta at the output index idx of the call, also when eta holds
\* one value per timestep.
C15_EtaOfOutputIndex ==
    Returned("add_simple_io_relation") =>
        \A e \in call.block.objs, t \in timesteps :
            /\ Family("io_relation", e, t) # {}
            /\ \A c \in Family("io_relation", e, t) :
                  ConvertsWith(c, e, t, Comp(e).eta[CallIdx + 1])

\* A transformer with one eta value per timestep, the two values differing,
\* has its relation at the second timestep, where the first value is used.
C15_Witness ==
    /\ Returned("add_simple_io_relation")
    /\ "chp" \in call.block.objs
    /\ T = 2
    /\ EtaPerTimestep("chp")
    /\ Comp("chp").eta[1] # Comp("chp").eta[2]
    /\ call.arg = "0"
    /\ \E c \in Family("io_relation", "chp", 1) :
          ConvertsWith(c, "chp", 1, Comp("chp").eta[1])

(***************************************************************************)
(* Charging at t = 0, discharging at t = 1                                 *)
(***************************************************************************)
\* The storage e starts empty with eta_in = 1 and eta_out = 0.8, and the
\* horizon has two timesteps or more.
EmptyStart(e) ==
    /\ T >= 2
    /\ Comp(e).cap_initial = Zero
    /\ Comp(e).eta_in = One
    /\ Comp(e).eta_out = <<4, 5>>

\* Assignment a charges e with 10 and discharges nothing at t = 0.
ChargesTenFirst(e, a) ==
    a[W(I(e), e, 0)] = 10 /\ a[W(e, O(e)[1], 0)] = 0

\* flow_out(1) / 0.8 of storage e under assignment a.
DrawnAtOne(e, a) == RDiv(<<a[W(e, O(e)[1], 1)], 1>>, Comp(e).eta_out)

\* C16 as stated: for a storage with cap_initial = 0, eta_in = 1 and
\* eta_out = 0.8 that charges 10 and discharges nothing at t = 0, every
\* assignment satisfying the storage constraints has CAP(e, 0) = 10 and
\* flow_out(1) / 0.8 <= CAP(e, 0), for every horizon of at least two
\* timesteps.
C16_DischargeWithinCap ==
    Returned("add_storage_balance") =>
        \A e \in call.block.objs :
            EmptyStart(e) =>
                \A a \in Solutions :
                    ChargesTenFirst(e, a) =>
                        /\ a[VarET("cap", e, 0)] = 10
                        /\ RLeq(DrawnAtOne(e, a),
                                <<a[VarET("cap", e, 0)], 1>>)

\* C16, amended: for such a storage every assignment with CAP(e, 1) >= 0
\* that satisfies the storage constraints has CAP(e, 0) = 10 and
\* flow_out(1) / 0.8 <= CAP(e, 0) + W(in, e, 1): what is charged at t = 1
\* can be discharged at t = 1 on top of the stored energy.
C16_DischargeWithinCapAndCharge ==
    Returned("add_storage_balance") =>
        \A e \in call.block.objs :
            EmptyStart(e) =>
                \A a \in Solutions :
                    (ChargesTenFirst(e, a) /\ a[VarET("cap", e, 1)] >= 0) =>
                        /\ a[VarET("cap", e, 0)] = 10
                        /\ RLeq(DrawnAtOne(e, a),
                                <<a[VarET("cap", e, 0)]
                                  + a[W(I(e), e, 1)], 1>>)

\* The storage starts empty, charges 10 at t = 0 and charges again at
\* t = 1 while it discharges more than CAP(e, 0) holds.
C16_Witness ==
    /\ Returned("add_storage_balance")
    /\ "sto_simple" \in call.block.objs
    /\ EmptyStart("sto_simple")
    /\ \E a \in Solutions :
          /\ ChargesTenFirst("sto_simple", a)
          /\ a[VarET("cap", "sto_simple", 0)] = 10
          /\ a[W("bel", "sto_simple", 1)] > 0
          /\ ~RLeq(DrawnAtOne("sto_simple", a), <<10, 1>>)

(***************************************************************************)
(* Closed cycle of the storage                                             *)
(***************************************************************************)
\* Sum over all t of W(in, e, t) * eta_in(e), and of W(e, out, t) /
\* eta_out(e), under assignment a.
ChargedTotal(e, a) ==
    EvalTerms({Term(Comp(e).eta_in, W(I(e), e, t)) : t \in timesteps}, a)
DischargedTotal(e, a) ==
    EvalTerms({Term(RDiv(One, Comp(e).eta_out), W(e, O(e)[1], t)) :
                 t \in timesteps}, a)

\* C17: for a storage with cap_loss = 0 and any horizon, a single timestep
\* included, every assignment satisfying the constraints of
\* add_storage_balance has the sum over all t of W(in, e, t) * eta_in(e)
\* equal to the sum over all t of W(e, out, t) / eta_out(e), for every
\* cap_initial; and the fixing of CAP at the last timestep never
\* contradicts the transition at t = 0: the constraints have a solution.
C17_ClosedCycle ==
    Returned("add_storage_balance") =>
        \A e \in call.block.objs :
            Comp(e).cap_loss = Zero =>
                /\ Solutions # {}
                /\ \A a \in Solutions :
                      /\ ChargedTotal(e, a) = DischargedTotal(e, a)
                      /\ <<a[VarET("cap", e, T - 1)], 1>> = Comp(e).cap_initial

\* A storage without loss that starts with 8 stored has, over a single
\* timestep, a solution that moves energy through the storage.
C17_Witness ==
    /\ Returned("add_storage_balance")
    /\ "sto_simple" \in call.block.objs
    /\ T = 1
    /\ cap_loss = Zero
    /\ cap_initial = <<8, 1>>
    /\ \E a \in Solutions :
          /\ a[W("bel", "sto_simple", 0)] > 0
          /\ ChargedTotal("sto_simple", a) = DischargedTotal("sto_simple", a)

====
